---- MODULE Spec2Model ----
(***************************************************************************)
(* Model of the DraggableSlider widget (draggable-slider.js).              *)
(*                                                                         *)
(* Units.  Pointer coordinates (pageX) are whole CSS pixels.  Every length *)
(* that the code derives from a bounding box is kept in HALF pixels, so    *)
(* that `width / 2` of an odd width is exact: a value v stands for v/2 px. *)
(* The inline style `left` of the track is kept the same way; parseInt of  *)
(* it drops the fractional pixel (Trunc).                                  *)
(*                                                                         *)
(* The track is taken to be a positioned element whose style sheet sets no *)
(* `left` of its own, so that its rendered position is its inline `left`.  *)
(* The container's markup does not carry the class 'active'; the slides'   *)
(* markup may carry it on any of them.                                     *)
(***************************************************************************)
EXTENDS Integers, Sequences, FiniteSets, TLC

\* Largest distance (px) a drag may carry the track from its origin.
MaxLeft == 110

\* JavaScript null (this.activeSlide, this.startSlide, this.startX).
Null == -1000000

\* Pointer positions (pageX, px) the host delivers.
PointerXs == {0, 100, 130, 150}

\* Pointer events: a mouse event carries pageX and no touch list; a touch
\* event carries no pageX and one touch point with a pageX.
Events == [kind : {"mouse", "touch"}, x : PointerXs]

\* What the page holds for the slider's id and class names.
Structures == {"ok", "noElem", "noInner", "noSlides"}

\* Page geometries (px).  elemLeft/elemWidth: the container's box;
\* slideWidth: the width of every slide; slideLeft[i+1]: the left edge of
\* slide i measured from the track's origin.
\*  1: three gap-free 100px slides in a 300px container
\*  2: three gap-free 101px slides in a 300px container (centres on half pixels)
\*  3: three 100px slides shown in the order 2, 0, 1 (CSS `order`)
\*  4: no slide
Layouts ==
  << [elemLeft |-> 0,  elemWidth |-> 300, slideWidth |-> 100, slideLeft |-> <<0, 100, 200>>],
     [elemLeft |-> 20, elemWidth |-> 300, slideWidth |-> 101, slideLeft |-> <<0, 101, 202>>],
     [elemLeft |-> 0,  elemWidth |-> 300, slideWidth |-> 100, slideLeft |-> <<100, 200, 0>>],
     [elemLeft |-> 0,  elemWidth |-> 300, slideWidth |-> 100, slideLeft |-> << >>] >>

\* Arguments of the programmatic calls moveToSlide(i) and setActiveSlide(i).
Indices == {-5, 0, 1, 2, 8}

VARIABLES
  structure,    \* what the constructor's lookups find
  layout,       \* index into Layouts: the page's current geometry
  bound,        \* TRUE iff the constructor installed the event listeners
  warned,       \* TRUE iff the constructor emitted console.warn
  styleLeft,    \* this.inner.style.left: << >> when empty, <<v>> for v/2 px
  activeSlide,  \* this.activeSlide
  startSlide,   \* this.startSlide
  startX,       \* this.startX
  elemActive,   \* 'active' in this.elem.classList
  slideActive,  \* slideActive[i]: 'active' in this.slides[i].classList
  threw,        \* the last handler or call ended in a TypeError
  prevented,    \* the last event had preventDefault() called on it
  lastOp        \* the last event delivered or method called, with its argument

vars == << structure, layout, bound, warned, styleLeft, activeSlide, startSlide,
           startX, elemActive, slideActive, threw, prevented, lastOp >>

\* The slider and its page as one value, for the operators below.
Self ==
  [ structure |-> structure, layout |-> layout, bound |-> bound, warned |-> warned,
    styleLeft |-> styleLeft, activeSlide |-> activeSlide, startSlide |-> startSlide,
    startX |-> startX, elemActive |-> elemActive, slideActive |-> slideActive,
    threw |-> threw, prevented |-> prevented ]

Become(w) ==
  /\ structure' = w.structure
  /\ layout' = w.layout
  /\ bound' = w.bound
  /\ warned' = w.warned
  /\ styleLeft' = w.styleLeft
  /\ activeSlide' = w.activeSlide
  /\ startSlide' = w.startSlide
  /\ startX' = w.startX
  /\ elemActive' = w.elemActive
  /\ slideActive' = w.slideActive
  /\ threw' = w.threw
  /\ prevented' = w.prevented

----------------------------------------------------------------------------
\* Helpers of the JavaScript semantics

Abs(v) == IF v < 0 THEN -v ELSE v

\* parseInt("<v/2>px"): the integer part of the pixel value, towards zero.
Trunc(v) == IF v >= 0 THEN (v \div 2) * 2 ELSE -(((-v) \div 2) * 2)

\* ToNumber: null is 0 in arithmetic.
Num(v) == IF v = Null THEN 0 ELSE v

\* this.slides.length
SlideCount(w) == Len(Layouts[w.layout].slideLeft)

\* this.slides[slide] is an element
HasSlide(w, slide) == slide \in 0 .. (SlideCount(w) - 1)

\* Rendered left of the track relative to the container (half px).
RenderedLeft(w) == IF w.styleLeft = << >> THEN 0 ELSE w.styleLeft[1]

----------------------------------------------------------------------------
\* The methods

getSlideOffset(w, slide) ==
  LET L == Layouts[w.layout]
      sliderRectLeft == 2 * L.elemLeft
      sliderRectWidth == 2 * L.elemWidth
      slideRectLeft == 2 * L.elemLeft + RenderedLeft(w) + 2 * L.slideLeft[slide + 1]
      slideRectWidth == 2 * L.slideWidth
  IN  slideRectLeft + slideRectWidth \div 2 - (sliderRectLeft + sliderRectWidth \div 2)

RECURSIVE getActiveSlideLoop(_, _, _)
getActiveSlideLoop(w, i, res) ==
  IF i < SlideCount(w)
    THEN getActiveSlideLoop(w, i + 1,
           IF Abs(getSlideOffset(w, i)) < Abs(getSlideOffset(w, i - 1)) THEN i ELSE res)
    ELSE res

getActiveSlide(w) == getActiveSlideLoop(w, 1, 0)

getInnerLeft(w) == IF w.styleLeft = << >> THEN 0 ELSE Trunc(w.styleLeft[1])

\* setActiveSlide without `if (slide > this.slides.length - 1)`.
setActiveSlide_NoUpperClamp(w, slide) ==
  LET s1 == IF slide < 0 THEN 0 ELSE slide
  IN  [w EXCEPT !.activeSlide = s1,
                !.slideActive = [i \in 0 .. (SlideCount(w) - 1) |-> i = s1]]

\* setActiveSlide without `if (slide < 0)`.
setActiveSlide_NoLowerClamp(w, slide) ==
  LET s2 == IF slide > SlideCount(w) - 1 THEN SlideCount(w) - 1 ELSE slide
  IN  [w EXCEPT !.activeSlide = s2,
                !.slideActive = [i \in 0 .. (SlideCount(w) - 1) |-> i = s2]]

\* setActiveSlide without the `else ... classList.remove('active')`.
setActiveSlide_KeepsMarkers(w, slide) ==
  LET s1 == IF slide < 0 THEN 0 ELSE slide
      s2 == IF s1 > SlideCount(w) - 1 THEN SlideCount(w) - 1 ELSE s1
  IN  [w EXCEPT !.activeSlide = s2,
                !.slideActive = [i \in 0 .. (SlideCount(w) - 1) |->
                                   (i = s2) \/ w.slideActive[i]]]

\* setActiveSlide also moving the track to the slide, as moveToSlide does.
setActiveSlide_MovesTrack(w, slide) ==
  LET s1 == IF slide < 0 THEN 0 ELSE slide
      s2 == IF s1 > SlideCount(w) - 1 THEN SlideCount(w) - 1 ELSE s1
      w1 == [w EXCEPT !.activeSlide = s2,
                      !.slideActive = [i \in 0 .. (SlideCount(w) - 1) |-> i = s2]]
  IN  IF HasSlide(w1, s2)
        THEN [w1 EXCEPT !.styleLeft = << getInnerLeft(w1) - getSlideOffset(w1, s2) >>]
        ELSE w1

setActiveSlide(w, slide) ==
  LET s1 == IF slide < 0 THEN 0 ELSE slide
      s2 == IF s1 > SlideCount(w) - 1 THEN SlideCount(w) - 1 ELSE s1
  IN  [w EXCEPT !.activeSlide = s2,
                !.slideActive = [i \in 0 .. (SlideCount(w) - 1) |-> i = s2]]

moveToSlide(w, slide) ==
  LET s1 == IF slide < 0 THEN 0 ELSE slide
      s2 == IF s1 > SlideCount(w) - 1 THEN SlideCount(w) - 1 ELSE s1
      w1 == setActiveSlide(w, s2)
  IN  IF HasSlide(w1, w1.activeSlide)
        THEN [w1 EXCEPT !.styleLeft =
                          << getInnerLeft(w1) - getSlideOffset(w1, w1.activeSlide) >>]
        ELSE [w1 EXCEPT !.threw = TRUE]

moveToActiveSlide(w) ==
  LET w1 == IF w.activeSlide = Null THEN [w EXCEPT !.activeSlide = 0] ELSE w
  IN  moveToSlide(w1, w1.activeSlide)

\* `e.pageX || e.touches[0].pageX` faults on a mouse event whose pageX is 0:
\* the left operand is falsy and a mouse event has no `touches`.
PointerFaults(e) == e.kind = "mouse" /\ e.x = 0

PointerX(e) == e.x

onStart(w, e) ==
  LET w1 == [w EXCEPT !.elemActive = TRUE]
  IN  IF PointerFaults(e)
        THEN [w1 EXCEPT !.threw = TRUE]
        ELSE [w1 EXCEPT !.startX = PointerX(e), !.startSlide = w.activeSlide]

\* onEnd without `this.elem.classList.remove('active')`.
onEnd_KeepsEngaged(w) ==
  IF \/ w.startSlide # w.activeSlide
     \/ w.activeSlide = 0
     \/ w.activeSlide = SlideCount(w) - 1
    THEN moveToActiveSlide(w)
    ELSE w

\* onEnd calling moveToActiveSlide() whatever the indices are.
onEnd_AlwaysSnaps(w) == moveToActiveSlide([w EXCEPT !.elemActive = FALSE])

onEnd(w) ==
  LET w1 == [w EXCEPT !.elemActive = FALSE]
  IN  IF \/ w1.startSlide # w1.activeSlide
         \/ w1.activeSlide = 0
         \/ w1.activeSlide = SlideCount(w1) - 1
        THEN moveToActiveSlide(w1)
        ELSE w1

\* onMove without `if (!this.elem.classList.contains('active')) return`.
onMove_NoEngagedGuard(w, e) ==
  LET w1 == [w EXCEPT !.prevented = TRUE]
  IN  IF PointerFaults(e)
        THEN [w1 EXCEPT !.threw = TRUE]
        ELSE LET pos == PointerX(e)
                 dist == pos - Num(w1.startX)
                 w2 == [w1 EXCEPT !.startX = pos]
                 w3 == [w2 EXCEPT !.styleLeft = << getInnerLeft(w2) + 2 * dist >>]
             IN  setActiveSlide(w3, getActiveSlide(w3))

onMove(w, e) ==
  IF ~w.elemActive THEN w
  ELSE LET w1 == [w EXCEPT !.prevented = TRUE]
       IN  IF PointerFaults(e)
             THEN [w1 EXCEPT !.threw = TRUE]
             ELSE LET pos == PointerX(e)
                      dist == pos - Num(w1.startX)
                      w2 == [w1 EXCEPT !.startX = pos]
                      w3 == [w2 EXCEPT !.styleLeft = << getInnerLeft(w2) + 2 * dist >>]
                  IN  setActiveSlide(w3, getActiveSlide(w3))

InvalidSliderStructure(w) == [w EXCEPT !.warned = TRUE]

\* The constructor without `if (!this.slides.length) return ...`.
constructor_NoEmptyCheck(p) ==
  IF p.structure = "noElem" THEN InvalidSliderStructure(p)
  ELSE IF p.structure = "noInner" THEN InvalidSliderStructure(p)
  ELSE LET w1 == [p EXCEPT !.activeSlide = Null, !.startSlide = Null, !.startX = Null]
           w2 == [w1 EXCEPT !.bound = TRUE]
       IN  setActiveSlide(w2, getActiveSlide(w2))

\* new DraggableSlider(...) on a page p (a record like Self, fields unset).
constructor(p) ==
  IF p.structure = "noElem" THEN InvalidSliderStructure(p)
  ELSE IF p.structure = "noInner" THEN InvalidSliderStructure(p)
  ELSE IF SlideCount(p) = 0 THEN InvalidSliderStructure(p)
  ELSE LET w1 == [p EXCEPT !.activeSlide = Null, !.startSlide = Null, !.startX = Null]
           w2 == [w1 EXCEPT !.bound = TRUE]
       IN  setActiveSlide(w2, getActiveSlide(w2))

----------------------------------------------------------------------------
\* The pages a slider may be constructed on.

LayoutsOf(n) == { l \in 1 .. Len(Layouts) : Len(Layouts[l].slideLeft) = n }

Pages ==
  { [ structure |-> s, layout |-> l, bound |-> FALSE, warned |-> FALSE,
      styleLeft |-> << >>, activeSlide |-> Null, startSlide |-> Null,
      startX |-> Null, elemActive |-> FALSE, slideActive |-> m,
      threw |-> FALSE, prevented |-> FALSE ] :
    s \in Structures, l \in 1 .. Len(Layouts),
    m \in UNION { [0 .. (n - 1) -> BOOLEAN] : n \in {0, 3} } }

ValidPage(p) ==
  /\ DOMAIN p.slideActive = 0 .. (SlideCount(p) - 1)
  /\ (p.structure = "noSlides") = (SlideCount(p) = 0)

Init ==
  \E p \in Pages :
    /\ ValidPage(p)
    /\ \E w \in {constructor(p)} :
         /\ structure = w.structure
         /\ layout = w.layout
         /\ bound = w.bound
         /\ warned = w.warned
         /\ styleLeft = w.styleLeft
         /\ activeSlide = w.activeSlide
         /\ startSlide = w.startSlide
         /\ startX = w.startX
         /\ elemActive = w.elemActive
         /\ slideActive = w.slideActive
         /\ threw = w.threw
         /\ prevented = w.prevented
    /\ lastOp = [op |-> "new", arg |-> Null]

----------------------------------------------------------------------------
\* Events and calls.  An event on a slider whose listeners were not installed
\* runs no handler.

Fresh(w) == [w EXCEPT !.threw = FALSE, !.prevented = FALSE]

InRange(w) == Abs(RenderedLeft(w)) <= 2 * MaxLeft

\* mousedown / touchstart
OnStart ==
  \E e \in Events :
    /\ \E w \in {IF bound THEN onStart(Fresh(Self), e) ELSE Fresh(Self)} : Become(w)
    /\ lastOp' = [op |-> IF e.kind = "mouse" THEN "mousedown" ELSE "touchstart",
                  arg |-> e.x]

\* mousemove / touchmove
OnMove ==
  \E e \in Events :
    /\ \E w \in {IF bound THEN onMove(Fresh(Self), e) ELSE Fresh(Self)} :
         InRange(w) /\ Become(w)
    /\ lastOp' = [op |-> IF e.kind = "mouse" THEN "mousemove" ELSE "touchmove",
                  arg |-> e.x]

\* mouseleave / mouseup / touchend
OnEnd ==
  \E ev \in {"mouseleave", "mouseup", "touchend"} :
    /\ \E w \in {IF bound THEN onEnd(Fresh(Self)) ELSE Fresh(Self)} : Become(w)
    /\ lastOp' = [op |-> ev, arg |-> Null]

\* window resize: the page takes a new geometry, then the listener runs.
OnResize ==
  \E l \in LayoutsOf(SlideCount(Self)) :
    /\ \E w \in {[Fresh(Self) EXCEPT !.layout = l]} :
         \E w1 \in {IF bound THEN moveToActiveSlide(w) ELSE w} : Become(w1)
    /\ lastOp' = [op |-> "resize", arg |-> Null]

\* slider.moveToSlide(i), called by the page's script
MoveToSlide ==
  \E i \in Indices :
    /\ structure = "ok"
    /\ \E w \in {moveToSlide(Fresh(Self), i)} : Become(w)
    /\ lastOp' = [op |-> "moveToSlide", arg |-> i]

\* slider.setActiveSlide(i), called by the page's script
SetActiveSlide ==
  \E i \in Indices :
    /\ structure = "ok"
    /\ \E w \in {setActiveSlide(Fresh(Self), i)} : Become(w)
    /\ lastOp' = [op |-> "setActiveSlide", arg |-> i]

Next ==
  \/ OnStart
  \/ OnMove
  \/ OnEnd
  \/ OnResize
  \/ MoveToSlide
  \/ SetActiveSlide

Spec == Init /\ [][Next]_vars

----------------------------------------------------------------------------
\* Vocabulary of the properties

StartEvents == {"mousedown", "touchstart"}
MoveEvents == {"mousemove", "touchmove"}
EndEvents == {"mouseleave", "mouseup", "touchend"}

\* A slider whose construction succeeded.
Valid == structure = "ok"

LastSlide == SlideCount(Self) - 1

\* k clamped to [0, slideCount-1]
Clamped(k) == IF k < 0 THEN 0 ELSE IF k > LastSlide THEN LastSlide ELSE k

\* |getSlideOffset(i)| in the current state
Distance(i) == Abs(getSlideOffset(Self, i))

\* What a call leaves of the track offset, the active index and the markers.
Outcome(w) == << w.styleLeft, w.activeSlide, w.slideActive >>

----------------------------------------------------------------------------
\* C1: getActiveSlide() returns an index at minimum distance from the
\* container's centre, the lowest such index on a tie; and 1 for three
\* gap-free 100px slides in a 300px container.
C1_NearestLowestIndex ==
  Valid =>
    /\ \A i \in 0 .. LastSlide :
         \/ Distance(getActiveSlide(Self)) < Distance(i)
         \/ Distance(getActiveSlide(Self)) = Distance(i) /\ getActiveSlide(Self) <= i
    /\ (layout = 1 /\ styleLeft = << >>) => getActiveSlide(Self) = 1

\* C2: after moveToSlide(k) returns, the slide k clamped to the valid range
\* is exactly centred.
C2_MoveToSlideCentres ==
  (Valid /\ lastOp.op = "moveToSlide") => getSlideOffset(Self, Clamped(lastOp.arg)) = 0

\* C3: from every reachable state, moveToSlide(k) called twice leaves what
\* moveToSlide(k) called once leaves.
C3_MoveToSlideIdempotent ==
  Valid =>
    \A k \in Indices :
      Outcome(moveToSlide(moveToSlide(Self, k), k)) = Outcome(moveToSlide(Self, k))

\* C4: a gesture end that follows a gesture start or move (which did not
\* fault) and finds the active index changed since the gesture start, or on
\* the first or last slide, leaves the active slide exactly centred.
C4_EndSnapsToCentre ==
  [][ ( /\ lastOp'.op \in EndEvents
        /\ lastOp.op \in StartEvents \cup MoveEvents
        /\ elemActive
        /\ ~threw
        /\ \/ startSlide # activeSlide
           \/ activeSlide = 0
           \/ activeSlide = LastSlide )
      => getSlideOffset(Self', activeSlide') = 0 ]_vars

\* C5: a gesture end that finds the active index equal to the one captured at
\* the gesture start, and on neither the first nor the last slide, changes
\* neither the track offset nor the active index.
C5_EndWithoutSnap ==
  [][ ( /\ lastOp'.op \in EndEvents
        /\ elemActive
        /\ startSlide = activeSlide
        /\ activeSlide # 0
        /\ activeSlide # LastSlide )
      => (styleLeft' = styleLeft /\ activeSlide' = activeSlide) ]_vars

C5_Witness ==
  /\ lastOp.op \in EndEvents
  /\ startX # Null
  /\ startSlide = activeSlide
  /\ activeSlide = 1
  /\ ~elemActive
  /\ startX = 130
  /\ getSlideOffset(Self, activeSlide) = 60

\* C6: while engaged, a move to pointer X that follows a start or a move at
\* pointer X0 (neither of them faulting) changes the track offset by X - X0;
\* summed over a gesture, the offset after each move is the offset at the
\* gesture start plus the pointer's displacement since the start.
C6_DragIncremental ==
  [][ ( /\ lastOp'.op \in MoveEvents
        /\ lastOp.op \in StartEvents \cup MoveEvents
        /\ elemActive
        /\ ~threw /\ ~threw' )
      => RenderedLeft(Self') = RenderedLeft(Self) + 2 * (lastOp'.arg - lastOp.arg) ]_vars

\* C7: on a valid slider the active index is an integer of [0, slideCount-1]
\* in every state, and so is the value of getActiveSlide().
C7_ActiveInRange ==
  Valid =>
    /\ activeSlide \in 0 .. LastSlide
    /\ getActiveSlide(Self) \in 0 .. LastSlide

C7_Witness ==
  /\ Valid
  /\ lastOp = [op |-> "setActiveSlide", arg |-> 8]
  /\ activeSlide = 2

\* C8: on a valid slider exactly one slide carries the "active" marker in
\* every state, and it is the slide at the active index.
C8_OneActiveMarker ==
  Valid =>
    /\ Cardinality({ i \in 0 .. LastSlide : slideActive[i] }) = 1
    /\ \A i \in 0 .. LastSlide : slideActive[i] <=> (i = activeSlide)

C8_Witness ==
  /\ Valid
  /\ lastOp.op \in MoveEvents
  /\ startSlide = 1
  /\ activeSlide = 0
  /\ slideActive[0] /\ ~slideActive[1] /\ ~slideActive[2]

\* C9: setActiveSlide and moveToSlide called with an index below 0 leave
\* what the call with 0 leaves, and called with an index above slideCount-1
\* what the call with slideCount-1 leaves.
C9_ArgumentsClamped ==
  Valid =>
    \A i \in Indices :
      /\ i < 0 =>
           /\ Outcome(setActiveSlide(Self, i)) = Outcome(setActiveSlide(Self, 0))
           /\ Outcome(moveToSlide(Self, i)) = Outcome(moveToSlide(Self, 0))
      /\ i > LastSlide =>
           /\ Outcome(setActiveSlide(Self, i)) = Outcome(setActiveSlide(Self, LastSlide))
           /\ Outcome(moveToSlide(Self, i)) = Outcome(moveToSlide(Self, LastSlide))

C9_Witness ==
  /\ Valid
  /\ lastOp = [op |-> "moveToSlide", arg |-> -5]
  /\ activeSlide = 0
  /\ getSlideOffset(Self, 0) = 0

\* C10: a construction that finds no container, no track or no slide warns,
\* raises no error and installs no listener: every later event leaves the
\* container's marker, the slides' markers and the track offset as they were.
C10_InvalidStructureInert ==
  /\ [](~Valid => (warned /\ ~bound /\ ~threw))
  /\ [][ ~Valid => UNCHANGED << elemActive, slideActive, styleLeft >> ]_vars

C10_Witness ==
  /\ structure = "noSlides"
  /\ warned
  /\ lastOp.op = "touchstart"
  /\ ~elemActive

ActiveIsComputed == activeSlide = getActiveSlide(Self)

\* C12: after construction, after every gesture move handled while engaged
\* (one that did not fault), every gesture end, every resize and every
\* moveToSlide call, the active index equals getActiveSlide().
C12_ActiveAlwaysComputed ==
  ( /\ Valid
    /\ ~threw
    /\ \/ lastOp.op \in {"new", "resize", "moveToSlide"} \cup EndEvents
       \/ lastOp.op \in MoveEvents /\ prevented )
  => ActiveIsComputed

\* C13: a window resize, in Idle or Engaged and into any layout, keeps the
\* active index and leaves the active slide exactly centred in the new
\* layout.
C13_ResizeRecentres ==
  [][ (Valid /\ lastOp'.op = "resize")
      => /\ activeSlide' = activeSlide
         /\ getSlideOffset(Self', activeSlide') = 0 ]_vars

\* C14: a gesture move delivered while the slider is Idle changes neither the
\* track offset, the active index, the slides' markers nor the recorded
\* pointer X, and does not prevent the event's default handling.
C14_IdleMoveIgnored ==
  [][ (Valid /\ lastOp'.op \in MoveEvents /\ ~elemActive)
      => /\ UNCHANGED << styleLeft, activeSlide, slideActive, startX >>
         /\ ~prevented'
         /\ ~threw' ]_vars

C14_Witness ==
  /\ Valid
  /\ ~elemActive
  /\ lastOp = [op |-> "touchmove", arg |-> 150]
  /\ startX = 100
  /\ ~prevented

\* C15: a gesture end (mouseup, mouseleave, touchend) delivered while the
\* slider is Idle leaves the track where it is and the active index as it is.
C15_IdleEndIgnored ==
  [][ (Valid /\ lastOp'.op \in EndEvents /\ ~elemActive)
      => /\ RenderedLeft(Self') = RenderedLeft(Self)
         /\ activeSlide' = activeSlide ]_vars

\* C16: in every Idle state of a valid slider, before the first gesture and
\* after each gesture end, the recorded start pointer X and the active index
\* captured at the gesture start are both unset.
C16_SessionUnsetWhenIdle ==
  (Valid /\ ~elemActive) => (startX = Null /\ startSlide = Null)

\* C17: a gesture start or move carrying a mouse event is handled without a
\* fault at every pageX >= 0: the recorded pointer X becomes pageX and, on a
\* move while engaged, the track offset changes by pageX minus the pointer X
\* recorded before.
C17_MouseHandledAtEveryX ==
  [][ (Valid /\ lastOp'.op \in {"mousedown", "mousemove"}
             /\ (lastOp'.op = "mousemove" => elemActive))
      => /\ ~threw'
         /\ startX' = lastOp'.arg
         /\ lastOp'.op = "mousemove" =>
              RenderedLeft(Self') = RenderedLeft(Self) + 2 * (lastOp'.arg - Num(startX)) ]_vars

\* C18: setActiveSlide(i) changes nothing but the active index and the
\* slides' markers: the track offset, the container's engagement marker and
\* the drag session fields are as they were, for every i and every state.
C18_SetActiveSlideOnlySelects ==
  [][ (Valid /\ lastOp'.op = "setActiveSlide")
      => /\ UNCHANGED << styleLeft, elemActive, startX, startSlide >>
         /\ activeSlide' = Clamped(lastOp'.arg)
         /\ ~threw' ]_vars

C18_Witness ==
  /\ Valid
  /\ lastOp = [op |-> "setActiveSlide", arg |-> 2]
  /\ activeSlide = 2
  /\ slideActive[2]
  /\ elemActive
  /\ startSlide = 1
  /\ startX = 130
  /\ getSlideOffset(Self, 2) # 0

====
